---- MODULE Spec2Model ----
(***************************************************************************)
(* Streaming transcription session of parakeet-cli (src/src/main.rs,       *)
(* the --stdin branch of main).  One logical thread reads raw s16le PCM    *)
(* from stdin, appends the decoded samples to all_audio, trims the buffer  *)
(* to MAX_BUFFER_SAMPLES, re-transcribes the whole buffer every            *)
(* CHUNK_INTERVAL_SAMPLES of new audio and, at end of input, emits the     *)
(* final event.                                                            *)
(*                                                                         *)
(* Representation.  A sample is identified by its position in the stream   *)
(* of decoded samples, so the Vec all_audio, which the code only extends   *)
(* at the tail and drains at the head, is the record [lo, hi]: it holds    *)
(* the samples lo+1 .. hi of that stream.  An f32 number of seconds is an  *)
(* integer number of microseconds.  Option<T> is a sequence of length 0    *)
(* (None) or 1 (Some).                                                     *)
(***************************************************************************)
EXTENDS Integers, Sequences, FiniteSets, TLC

VARIABLES
    pc,                                 \* position in main: Start, Accumulating, Done, Aborted
    all_audio,                          \* main.rs:140
    samples_since_last_transcription,   \* main.rs:142
    last_text,                          \* main.rs:143
    events,                             \* lines written to stdout by emit_event, in order
    stderr,                             \* diagnostics written by eprintln!, in order
    calls,                              \* invocations of model.transcribe_samples, in order:
                                        \* whether timestamps were asked for, the samples
                                        \* handed over, and what came back (spans: the
                                        \* number of tokens returned to a final call)
    bytes_in,                           \* bytes delivered by handle.read so far
    reads,                              \* number of reads that returned Ok(n), n > 0
    last_read,                          \* what the latest handle.read returned:
                                        \* none (no read yet), ok, interrupted, error, eof
    byte_chunks,                        \* byte level: the contents of buf[..bytes_read] of
                                        \* the reads so far, in order
    decoded                             \* byte level: the samples appended to all_audio

vars == <<pc, all_audio, samples_since_last_transcription, last_text,
          events, stderr, calls, bytes_in, reads, last_read, byte_chunks, decoded>>

\* the byte level is followed in a specification of its own, SpecDecode
ingest == <<byte_chunks, decoded>>

----------------------------------------------------------------------------
(* Program constants                                                       *)

MIN_SAMPLES_FOR_TRANSCRIPTION == 16000

CHUNK_INTERVAL_SAMPLES == 8000

MAX_BUFFER_SAMPLES == 16000 * 180

BUF_SIZE == 8000

----------------------------------------------------------------------------
(* Bounds of the model                                                     *)

\* longest session of the short specification, in non-empty reads
MaxReads == 9

\* the long specification reads full buffers until the buffer is within
\* LongMargin samples of MAX_BUFFER_SAMPLES ...
LongMargin == 8000

\* ... and stops reading once LongOverrun samples beyond the ceiling arrived
LongOverrun == 20000

----------------------------------------------------------------------------
(* Option<T>                                                               *)

None == << >>

Some(x) == << x >>

----------------------------------------------------------------------------
(* Vec<f32> all_audio                                                      *)

VecNew == [lo |-> 0, hi |-> 0]

VecLen(v) == v.hi - v.lo

VecIsEmpty(v) == VecLen(v) = 0

\* all_audio.extend_from_slice(&samples), samples being the next k of the stream
ExtendFromSlice(v, k) == [v EXCEPT !.hi = v.hi + k]

\* all_audio.drain(..excess)
Drain(v, excess) == [v EXCEPT !.lo = v.lo + excess]

\* a trailing odd byte makes a sample of its own
SamplesIn_RoundsUp(bytes_read) == (bytes_read + 1) \div 2

\* buf[..bytes_read].chunks_exact(2).map(..).collect().len()
SamplesIn(bytes_read) == bytes_read \div 2

\* i16::from_le_bytes([chunk[0], chunk[1]]) with the bytes swapped
SampleOf_BigEndian(b0, b1) ==
    LET u == 256 * b0 + b1 IN IF u >= 32768 THEN u - 65536 ELSE u

\* i16::from_le_bytes([chunk[0], chunk[1]]) as f32 / 32768.0, in units of 1/32768
\* (every i16 divided by 2^15 is exact in f32)
SampleOf(b0, b1) ==
    LET u == b0 + 256 * b1 IN IF u >= 32768 THEN u - 65536 ELSE u

\* buf[..bytes_read].chunks_exact(2).map(..).collect()
DecodeChunk(chunk) ==
    [j \in 1..(Len(chunk) \div 2) |-> SampleOf(chunk[2*j - 1], chunk[2*j])]

\* all_audio.len() as f32 / 16000.0, in microseconds (1000000 / 16000 = 125 / 2);
\* a length below 2^24 is exact in f32 and the quotients of two such lengths differ
AudioDuration(len) == (len * 125) \div 2

----------------------------------------------------------------------------
(* Inputs: what the reads and the recognizer may return                    *)

Texts == {"", "a", "b"}

TokenLists == { << >>, << [text |-> "a", start |-> 0, end |-> 500000] >> }

ElapsedSecs == {40000}

\* Result<TranscriptionResult, Error> of transcribe_samples
Failure == [ok |-> FALSE, text |-> "error", tokens |-> << >>]

Successes == [ok : {TRUE}, text : Texts, tokens : TokenLists]

Results == Successes \cup {Failure}

\* sizes (in bytes) of the non-empty reads of the short specification
ReadSizes == {1, 4000, 7998, 8000}

----------------------------------------------------------------------------
(* Events                                                                  *)

TranscriptEvent(text, is_final, duration_secs, audio_duration_secs, timestamps) ==
    [text |-> text, is_final |-> is_final, duration_secs |-> duration_secs,
     audio_duration_secs |-> audio_duration_secs, timestamps |-> timestamps]

\* result.tokens.iter().map(|t| TimedTokenOut {..}).collect()
TimedTokensOut(tokens) ==
    [i \in 1..Len(tokens) |->
        [word |-> tokens[i].text, start |-> tokens[i].start, end |-> tokens[i].end]]

\* emit_event: one line on stdout per event, flushed at once
emit_event(out, event) == Append(out, event)

ReadyEvent == TranscriptEvent("", FALSE, None, Some(0), None)

PartialEvent(text, len) ==
    TranscriptEvent(text, FALSE, None, Some(AudioDuration(len)), None)

\* the empty final event without its durations
EmptyFinalEvent_Bare == TranscriptEvent("", TRUE, None, None, None)

EmptyFinalEvent == TranscriptEvent("", TRUE, Some(0), Some(0), None)

\* the timestamps are attached whether or not there are any
FinalEvent_AlwaysTimestamps(result, elapsed, len) ==
    TranscriptEvent(result.text, TRUE, Some(elapsed), Some(AudioDuration(len)),
                    Some(TimedTokensOut(result.tokens)))

FinalEvent(result, elapsed, len) ==
    LET timestamps == TimedTokensOut(result.tokens) IN
    TranscriptEvent(result.text, TRUE, Some(elapsed), Some(AudioDuration(len)),
                    IF timestamps = << >> THEN None ELSE Some(timestamps))

\* the fallback carries the fields of the empty final event
FallbackEvent_Timed(text) == TranscriptEvent(text, TRUE, Some(0), Some(0), None)

FallbackEvent(text) == TranscriptEvent(text, TRUE, None, None, None)

----------------------------------------------------------------------------
(* The session                                                             *)

Init ==
    /\ pc = "Start"
    /\ all_audio = VecNew
    /\ samples_since_last_transcription = 0
    /\ last_text = ""
    /\ events = << >>
    /\ stderr = << >>
    /\ calls = << >>
    /\ bytes_in = 0
    /\ reads = 0
    /\ last_read = "none"
    /\ byte_chunks = << >>
    /\ decoded = << >>

\* the session starts reading without the ready event
Start_Silent ==
    /\ UNCHANGED ingest
    /\ pc = "Start"
    /\ pc' = "Accumulating"
    /\ UNCHANGED <<all_audio, samples_since_last_transcription, last_text,
                   events, stderr, calls, bytes_in, reads, last_read>>

\* main.rs:139-158: the session's variables are created, the ready event is emitted
Start ==
    /\ UNCHANGED ingest
    /\ pc = "Start"
    /\ pc' = "Accumulating"
    /\ events' = emit_event(events, ReadyEvent)
    /\ UNCHANGED <<all_audio, samples_since_last_transcription, last_text,
                   stderr, calls, bytes_in, reads, last_read>>

\* the trim leaves one sample too many
EnforceMax_OffByOne(v) ==
    IF VecLen(v) > MAX_BUFFER_SAMPLES + 1
    THEN Drain(v, VecLen(v) - MAX_BUFFER_SAMPLES - 1)
    ELSE v

\* the trim removes the excess twice
EnforceMax_Twice(v) ==
    IF VecLen(v) > MAX_BUFFER_SAMPLES
    THEN Drain(v, 2 * (VecLen(v) - MAX_BUFFER_SAMPLES))
    ELSE v

\* main.rs:180-188
EnforceMax(v) ==
    IF VecLen(v) > MAX_BUFFER_SAMPLES
    THEN Drain(v, VecLen(v) - MAX_BUFFER_SAMPLES)
    ELSE v

\* the warning reports the length instead of the excess
TrimWarnings_ReportsLength(v) ==
    IF VecLen(v) > MAX_BUFFER_SAMPLES
    THEN << [kind |-> "trimmed", excess |-> VecLen(v)] >>
    ELSE << >>

\* main.rs:184-187
TrimWarnings(v) ==
    IF VecLen(v) > MAX_BUFFER_SAMPLES
    THEN << [kind |-> "trimmed", excess |-> VecLen(v) - MAX_BUFFER_SAMPLES] >>
    ELSE << >>

\* the trigger without the minimum buffer length
ShouldTranscribe_NoMinimum(pending, len) ==
    pending >= CHUNK_INTERVAL_SAMPLES

\* the two conditions of the trigger joined by ||
ShouldTranscribe_Either(pending, len) ==
    \/ pending >= CHUNK_INTERVAL_SAMPLES
    \/ len >= MIN_SAMPLES_FOR_TRANSCRIPTION

\* the trigger fires on more than the interval only
ShouldTranscribe_Late(pending, len) ==
    /\ pending > CHUNK_INTERVAL_SAMPLES
    /\ len >= MIN_SAMPLES_FOR_TRANSCRIPTION

\* main.rs:192-193
ShouldTranscribe(pending, len) ==
    /\ pending >= CHUNK_INTERVAL_SAMPLES
    /\ len >= MIN_SAMPLES_FOR_TRANSCRIPTION

\* the counter is reset in the Ok arm only
PendingAfterTrigger_OnSuccess(pending, result) ==
    IF result.ok THEN 0 ELSE pending

\* main.rs:195: samples_since_last_transcription = 0, before the call
PendingAfterTrigger(pending, result) == 0

\* a failed call clears the text
LastTextAfter_Clears(last, result) ==
    IF result.ok THEN result.text ELSE ""

\* main.rs:204-205 and 217-220: last_text after transcribe_samples returned result
LastTextAfter(last, result) ==
    IF result.ok THEN result.text ELSE last

\* main.rs:204-221: stdout after transcribe_samples returned result for len samples
PartialEmit(out, result, len) ==
    IF result.ok
    THEN emit_event(out, PartialEvent(result.text, len))
    ELSE out

\* main.rs:217-218
PartialWarnings(result) ==
    IF result.ok THEN << >> ELSE << [kind |-> "partial_failed", excess |-> 0] >>

\* main.rs:161-222, the arm Ok(n): one turn of the read loop that got n bytes;
\* result is what transcribe_samples returns if this turn calls it
ReadOk(n, result) ==
    /\ UNCHANGED ingest
    /\ pc = "Accumulating"
    /\ n \in 1..BUF_SIZE
    /\ LET samples  == SamplesIn(n)
           extended == ExtendFromSlice(all_audio, samples)
           pending  == samples_since_last_transcription + samples
           audio    == EnforceMax(extended)
           warned   == stderr \o TrimWarnings(extended)
       IN  /\ all_audio' = audio
           /\ bytes_in' = bytes_in + n
           /\ reads' = reads + 1
           /\ last_read' = "ok"
           /\ pc' = pc
           /\ IF ShouldTranscribe(pending, VecLen(audio))
              THEN /\ samples_since_last_transcription' = PendingAfterTrigger(pending, result)
                   /\ calls' = Append(calls, [timestamps |-> FALSE, audio |-> audio,
                                              ok |-> result.ok, text |-> result.text,
                                              spans |-> 0])
                   /\ last_text' = LastTextAfter(last_text, result)
                   /\ events' = PartialEmit(events, result, VecLen(audio))
                   /\ stderr' = warned \o PartialWarnings(result)
              ELSE /\ samples_since_last_transcription' = pending
                   /\ stderr' = warned
                   /\ UNCHANGED <<calls, last_text, events>>

\* the Interrupted error is not told apart from the other read errors
ReadInterrupted_Fatal ==
    /\ UNCHANGED ingest
    /\ pc = "Accumulating"
    /\ pc' = "Aborted"
    /\ last_read' = "interrupted"
    /\ UNCHANGED <<all_audio, samples_since_last_transcription, last_text,
                   events, stderr, calls, bytes_in, reads>>

\* main.rs:164: Err(e) if e.kind() == Interrupted => continue
ReadInterrupted ==
    /\ UNCHANGED ingest
    /\ pc = "Accumulating"
    /\ last_read' = "interrupted"
    /\ UNCHANGED <<pc, all_audio, samples_since_last_transcription, last_text,
                   events, stderr, calls, bytes_in, reads>>

\* the fatal error falls through to the fallback of the final transcription
ReadError_Finalizes ==
    /\ UNCHANGED ingest
    /\ pc = "Accumulating"
    /\ pc' = "Aborted"
    /\ last_read' = "error"
    /\ events' = (IF last_text # "" THEN emit_event(events, FallbackEvent(last_text))
                  ELSE events)
    /\ UNCHANGED <<all_audio, samples_since_last_transcription, last_text,
                   stderr, calls, bytes_in, reads>>

\* main.rs:165: Err(e) => return Err(e.into())
ReadError ==
    /\ UNCHANGED ingest
    /\ pc = "Accumulating"
    /\ pc' = "Aborted"
    /\ last_read' = "error"
    /\ UNCHANGED <<all_audio, samples_since_last_transcription, last_text,
                   events, stderr, calls, bytes_in, reads>>

\* the zero-length read is taken for an empty read and the loop goes on
ReadEOF_Continue(result, elapsed) ==
    /\ UNCHANGED ingest
    /\ pc = "Accumulating"
    /\ last_read' = "eof"
    /\ UNCHANGED <<pc, all_audio, samples_since_last_transcription, last_text,
                   events, stderr, calls, bytes_in, reads>>

\* the final transcription runs but the read loop goes on
ReadEOF_NoBreak(result, elapsed) ==
    /\ UNCHANGED ingest
    /\ pc = "Accumulating"
    /\ pc' = "Accumulating"
    /\ last_read' = "eof"
    /\ IF VecIsEmpty(all_audio)
       THEN /\ events' = emit_event(events, EmptyFinalEvent)
            /\ UNCHANGED <<calls, stderr>>
       ELSE /\ calls' = Append(calls, [timestamps |-> TRUE, audio |-> all_audio,
                                       ok |-> result.ok, text |-> result.text,
                                       spans |-> Len(result.tokens)])
            /\ IF result.ok
               THEN /\ events' = emit_event(events,
                                    FinalEvent(result, elapsed, VecLen(all_audio)))
                    /\ UNCHANGED stderr
               ELSE /\ stderr' = Append(stderr, [kind |-> "final_failed", excess |-> 0])
                    /\ IF last_text # ""
                       THEN events' = emit_event(events, FallbackEvent(last_text))
                       ELSE UNCHANGED events
    /\ UNCHANGED <<all_audio, samples_since_last_transcription, last_text,
                   bytes_in, reads>>

\* main.rs:162 and 225-291: Ok(0) => break, then the final transcription
ReadEOF(result, elapsed) ==
    /\ UNCHANGED ingest
    /\ pc = "Accumulating"
    /\ pc' = "Done"
    /\ last_read' = "eof"
    /\ IF VecIsEmpty(all_audio)
       THEN /\ events' = emit_event(events, EmptyFinalEvent)
            /\ UNCHANGED <<calls, stderr>>
       ELSE /\ calls' = Append(calls, [timestamps |-> TRUE, audio |-> all_audio,
                                       ok |-> result.ok, text |-> result.text,
                                       spans |-> Len(result.tokens)])
            /\ IF result.ok
               THEN /\ events' = emit_event(events,
                                    FinalEvent(result, elapsed, VecLen(all_audio)))
                    /\ UNCHANGED stderr
               ELSE /\ stderr' = Append(stderr, [kind |-> "final_failed", excess |-> 0])
                    /\ IF last_text # ""
                       THEN events' = emit_event(events, FallbackEvent(last_text))
                       ELSE UNCHANGED events
    /\ UNCHANGED <<all_audio, samples_since_last_transcription, last_text,
                   bytes_in, reads>>

----------------------------------------------------------------------------
(* Short sessions: at most MaxReads non-empty reads of any size in         *)
(* ReadSizes, any recognizer result                                        *)

Next ==
    \/ Start
    \/ \E n \in ReadSizes, result \in Results :
          reads < MaxReads /\ ReadOk(n, result)
    \/ ReadInterrupted
    \/ ReadError
    \/ \E result \in Results, elapsed \in ElapsedSecs : ReadEOF(result, elapsed)

Spec == Init /\ [][Next]_vars

\* the source delivers its zero-length read in the end and every call of the
\* recognizer returns; the single thread of main keeps running
EndOfInput == \E result \in Results, elapsed \in ElapsedSecs : ReadEOF(result, elapsed)

SpecLive == Init /\ [][Next]_vars /\ WF_vars(Start) /\ WF_vars(EndOfInput)

----------------------------------------------------------------------------
(* Long sessions: the source delivers full buffers and the recognizer      *)
(* succeeds until the buffer is within LongMargin samples of the ceiling;  *)
(* from there on reads of either size in LongReadSizes and any result in   *)
(* LongResults, until LongOverrun samples beyond the ceiling have arrived  *)

SteadyResult == [ok |-> TRUE, text |-> "a", tokens |-> << >>]

LongReadSizes == {7998, 8000}

LongResults == {Failure, SteadyResult, [SteadyResult EXCEPT !.text = "b"]}

Steady == VecLen(all_audio) < MAX_BUFFER_SAMPLES - LongMargin

NextLong ==
    \/ Start
    \/ Steady /\ ReadOk(BUF_SIZE, SteadyResult)
    \/ \E n \in LongReadSizes, result \in LongResults :
          /\ ~Steady
          /\ all_audio.hi + SamplesIn(n) <= MAX_BUFFER_SAMPLES + LongOverrun
          /\ ReadOk(n, result)
    \/ ReadInterrupted
    \/ ReadError
    \/ \E result \in Results, elapsed \in ElapsedSecs : ReadEOF(result, elapsed)

SpecLong == Init /\ [][NextLong]_vars

----------------------------------------------------------------------------
(* Audio ingest at the byte level: reads of 1 .. MaxChunkBytes bytes, each *)
(* byte in Bytes, decoded and appended as in the read loop                 *)

MaxChunkBytes == 3

MaxChunks == 2

Bytes == {1, 255}

ChunkInputs == UNION { [1..n -> Bytes] : n \in 1..MaxChunkBytes }

\* main.rs:161-177: a read of the bytes chunk, decoded and appended
IngestChunk(chunk) ==
    /\ pc = "Start"
    /\ byte_chunks' = Append(byte_chunks, chunk)
    /\ decoded' = decoded \o DecodeChunk(chunk)
    /\ UNCHANGED <<pc, all_audio, samples_since_last_transcription, last_text,
                   events, stderr, calls, bytes_in, reads, last_read>>

NextDecode ==
    \E chunk \in ChunkInputs : Len(byte_chunks) < MaxChunks /\ IngestChunk(chunk)

SpecDecode == Init /\ [][NextDecode]_vars

----------------------------------------------------------------------------
(* Reading the logs                                                        *)

Last(seq) == seq[Len(seq)]

IsFinalEvent(e) == e.is_final

IsPartialEvent(e) == ~e.is_final

FinalEvents == SelectSeq(events, IsFinalEvent)

\* the non-final events after the first event of the stream
PartialEvents == IF events = << >> THEN << >> ELSE SelectSeq(Tail(events), IsPartialEvent)

IsPartialCall(c) == ~c.timestamps

IsFinalCall(c) == c.timestamps

IsGoodPartialCall(c) == ~c.timestamps /\ c.ok

PartialCalls == SelectSeq(calls, IsPartialCall)

GoodPartialCalls == SelectSeq(calls, IsGoodPartialCall)

FinalCalls == SelectSeq(calls, IsFinalCall)

FinalCallFailed == pc = "Done" /\ calls # << >> /\ Last(calls).timestamps /\ ~Last(calls).ok

----------------------------------------------------------------------------
(* C1: a session that is not aborted by a fatal read error emits exactly   *)
(* one event with is_final = true.  Stated on the finished session.        *)
C1_ExactlyOneFinal ==
    pc = "Done" => Len(FinalEvents) = 1

----------------------------------------------------------------------------
(* C2: every partial event is emitted in an ingest step at which the       *)
(* buffer holds at least 16,000 samples and at least 8,000 samples were    *)
(* appended since the previous recognition trigger (or since the start);   *)
(* the transcriber is never invoked for a partial otherwise.  The partial  *)
(* events are exactly those of the successful partial calls.               *)
C2_PartialOnlyWhenDue ==
    LET triggers == PartialCalls
        good     == GoodPartialCalls
        partials == PartialEvents
    IN  /\ \A i \in 1..Len(triggers) :
              /\ VecLen(triggers[i].audio) >= 16000
              /\ triggers[i].audio.hi
                    - (IF i = 1 THEN 0 ELSE triggers[i-1].audio.hi) >= 8000
        /\ Len(partials) = Len(good)
        /\ \A i \in 1..Len(partials) :
              partials[i].audio_duration_secs = << (VecLen(good[i].audio) * 125) \div 2 >>

\* two partial events, the second one 8,000 or more samples after the first
C2_Witness ==
    /\ Len(PartialEvents) >= 2
    /\ Len(PartialCalls) > Len(GoodPartialCalls)

----------------------------------------------------------------------------
(* C3: after every ingest step the buffer holds at most 2,880,000 samples; *)
(* when appending a chunk would exceed the ceiling the buffer holds        *)
(* exactly 2,880,000 samples after the step, and that is the buffer the    *)
(* step's recognition call sees; the buffer of the final call is bounded   *)
(* alike.                                                                  *)
C3_BufferCeiling ==
    /\ [](/\ VecLen(all_audio) <= 2880000
          /\ \A i \in 1..Len(calls) : VecLen(calls[i].audio) <= 2880000)
    /\ [][/\ VecLen(all_audio) + (all_audio'.hi - all_audio.hi) > 2880000
               => VecLen(all_audio') = 2880000
          /\ Len(calls') > Len(calls) => Last(calls').audio = all_audio']_vars

\* the session ended with a final call on a buffer that was trimmed, after a
\* partial call on a trimmed buffer
C3_Witness ==
    /\ pc = "Done"
    /\ Len(FinalCalls) = 1
    /\ Last(calls).audio.lo > 0
    /\ VecLen(Last(calls).audio) = 2880000
    /\ \E i \in 1..Len(PartialCalls) : PartialCalls[i].audio.lo > 3999

----------------------------------------------------------------------------
(* C4 as claimed: of any two partial events of a session the later one has *)
(* the larger audio_duration, also once the buffer ceiling applies.  It is *)
(* stated on consecutive partial events, which is the same for a strict    *)
(* order.                                                                  *)
C4_StrictlyIncreasing ==
    LET partials == PartialEvents IN
    \A i \in 1..(Len(partials) - 1) :
        partials[i+1].audio_duration_secs[1] > partials[i].audio_duration_secs[1]

(* C4 as amended: events are appended to the stream in the order they are  *)
(* produced, and of two consecutive partial events the later one has an    *)
(* audio_duration at least as large as the earlier one, and a larger one   *)
(* unless both were produced with the buffer at its ceiling, where both    *)
(* carry 180 s.                                                            *)
C4_NonDecreasing ==
    /\ [](LET partials == PartialEvents IN
          \A i \in 1..(Len(partials) - 1) :
            LET earlier == partials[i].audio_duration_secs[1]
                later   == partials[i+1].audio_duration_secs[1]
            IN  /\ later >= earlier
                /\ later = earlier => later = 180000000)
    /\ [][\/ events' = events
          \/ /\ Len(events') = Len(events) + 1
             /\ SubSeq(events', 1, Len(events)) = events]_vars

\* two partial events at the ceiling after partial events below it
C4_Witness ==
    /\ Len(PartialEvents) >= 3
    /\ Last(PartialEvents).audio_duration_secs = << 180000000 >>
    /\ PartialEvents[Len(PartialEvents) - 1].audio_duration_secs = << 180000000 >>
    /\ PartialEvents[1].audio_duration_secs = << 1000000 >>

----------------------------------------------------------------------------
(* C5: when the final recognition call fails, a terminal event is emitted  *)
(* if some partial recognition call of the session succeeded, whatever     *)
(* text it returned, and only then.                                        *)
C5_TerminalIffPartialSucceeded ==
    FinalCallFailed => (Len(FinalEvents) >= 1 <=> Len(GoodPartialCalls) >= 1)

----------------------------------------------------------------------------
(* C6: when the final recognition call fails, a fallback terminal event is *)
(* emitted if and only if the last-known-good text is non-empty; that text *)
(* is the one returned by the most recent successful partial call of the   *)
(* session, and the event carries is_final = true and neither              *)
(* duration_secs nor audio_duration_secs nor timestamps.                   *)
C6_Fallback ==
    FinalCallFailed =>
        /\ last_text = (IF GoodPartialCalls = << >> THEN "" ELSE Last(GoodPartialCalls).text)
        /\ last_text = ""  => FinalEvents = << >>
        /\ last_text # "" =>
              /\ Len(FinalEvents) = 1
              /\ Last(events) = [text |-> Last(GoodPartialCalls).text, is_final |-> TRUE,
                                 duration_secs |-> << >>, audio_duration_secs |-> << >>,
                                 timestamps |-> << >>]

\* the final call failed after two successful partial calls with different texts
\* and a failed one
C6_Witness ==
    /\ FinalCallFailed
    /\ Len(FinalEvents) = 1
    /\ Len(GoodPartialCalls) >= 2
    /\ GoodPartialCalls[1].text # Last(GoodPartialCalls).text
    /\ ~Last(PartialCalls).ok

----------------------------------------------------------------------------
(* C7: a failed partial recognition emits no event, leaves the             *)
(* last-known-good text and the buffer as they were (the buffer is the     *)
(* stream's newest samples, all those appended so far up to the ceiling),  *)
(* and the session keeps Accumulating; every later call, the final one     *)
(* included, is handed the whole buffer.                                   *)
C7_PartialFailureIsLocal ==
    /\ [][(/\ Len(calls') = Len(calls) + 1
           /\ ~Last(calls').timestamps
           /\ ~Last(calls').ok)
          => /\ events' = events
             /\ last_text' = last_text
             /\ pc' = "Accumulating"
             /\ all_audio'.hi = all_audio.hi + ((bytes_in' - bytes_in) \div 2)
             /\ all_audio'.lo = (IF all_audio'.hi > 2880000
                                 THEN all_audio'.hi - 2880000 ELSE 0)]_vars
    /\ [][Len(calls') > Len(calls) => Last(calls').audio = all_audio']_vars
    /\ [](pc = "Accumulating" => ENABLED (\E n \in ReadSizes : ReadOk(n, Failure)))

\* a partial call failed after one that succeeded with a non-empty text, and
\* another call followed
C7_Witness ==
    /\ Len(calls) >= 3
    /\ calls[1].ok /\ calls[1].text = "a"
    /\ ~calls[2].timestamps /\ ~calls[2].ok
    /\ calls[3].ok

----------------------------------------------------------------------------
(* C8 as claimed: for an empty input stream the session emits exactly one  *)
(* event in total, the terminal event with empty text, is_final = true,    *)
(* duration_secs 0.0 and audio_duration_secs 0.0.                          *)
C8_OneEventOnEmptyInput ==
    (pc = "Done" /\ reads = 0) =>
        events = << [text |-> "", is_final |-> TRUE, duration_secs |-> << 0 >>,
                     audio_duration_secs |-> << 0 >>, timestamps |-> << >>] >>

(* C8 as amended: for an empty input stream the session emits exactly two  *)
(* events, the ready event and then the terminal event with empty text,    *)
(* is_final = true, duration_secs 0.0, audio_duration_secs 0.0 and no      *)
(* timestamps; no recognition call is made.                                *)
C8_ReadyThenEmptyFinal ==
    (pc = "Done" /\ reads = 0) =>
        /\ events = << [text |-> "", is_final |-> FALSE, duration_secs |-> << >>,
                        audio_duration_secs |-> << 0 >>, timestamps |-> << >>],
                       [text |-> "", is_final |-> TRUE, duration_secs |-> << 0 >>,
                        audio_duration_secs |-> << 0 >>, timestamps |-> << >>] >>
        /\ calls = << >>

C8_Witness ==
    pc = "Done" /\ reads = 0 /\ bytes_in = 0

----------------------------------------------------------------------------
(* C9: 32,000 samples delivered in eight reads of 4,000 samples, then end  *)
(* of input, every recognition call succeeding.                            *)
ScenarioC ==
    /\ pc = "Done"
    /\ reads = 8
    /\ bytes_in = 64000
    /\ \A i \in 1..Len(calls) : calls[i].ok

Durations == [i \in 1..Len(events) |-> events[i].audio_duration_secs]

Finality == [i \in 1..Len(events) |-> events[i].is_final]

(* C9 as claimed: the events are the ready event, a partial at 1.0 s, a    *)
(* partial at 1.5 s and one terminal event at 2.0 s.                       *)
C9_TwoPartials ==
    ScenarioC =>
        /\ Durations = << <<0>>, <<1000000>>, <<1500000>>, <<2000000>> >>
        /\ Finality = << FALSE, FALSE, FALSE, TRUE >>
        /\ events[1].text = ""

(* C9 as amended: the events are the ready event, partials at 1.0 s, 1.5 s *)
(* and 2.0 s of accumulated audio, then one terminal event with audio      *)
(* duration 2.0 s; no partial is emitted before the buffer holds 16,000    *)
(* samples.                                                                *)
C9_ThreePartials ==
    ScenarioC =>
        /\ Durations = << <<0>>, <<1000000>>, <<1500000>>, <<2000000>>, <<2000000>> >>
        /\ Finality = << FALSE, FALSE, FALSE, FALSE, TRUE >>
        /\ events[1].text = ""
        /\ \A i \in 1..Len(PartialCalls) : VecLen(PartialCalls[i].audio) >= 16000

C9_Witness ==
    ScenarioC /\ Len(events) = 5

----------------------------------------------------------------------------
(* C10: a read error other than Interrupted aborts the session: the step   *)
(* that takes it and every later step make no recognition call and emit no *)
(* event, and an aborted session has emitted no terminal event.            *)
C10_FatalReadAborts ==
    /\ [][(pc = "Aborted" \/ pc' = "Aborted")
            => (events' = events /\ calls' = calls /\ pc' = "Aborted")]_vars
    /\ [](pc = "Aborted" => FinalEvents = << >> /\ FinalCalls = << >>)

\* aborted with a buffer worth transcribing and a last-known-good text
C10_Witness ==
    /\ pc = "Aborted"
    /\ last_text # ""
    /\ VecLen(all_audio) >= 16000
    /\ samples_since_last_transcription >= 1

----------------------------------------------------------------------------
(* C11: a read that fails with Interrupted changes neither the buffer nor  *)
(* the pending-sample counter nor the last-known-good text, emits no event *)
(* and no diagnostic, makes no recognition call, is not an end of input,   *)
(* and leaves the session Accumulating, where the read is issued again.    *)
C11_InterruptedIsInvisible ==
    /\ [][last_read' = "interrupted"
            => /\ pc = "Accumulating" /\ pc' = "Accumulating"
               /\ UNCHANGED <<all_audio, samples_since_last_transcription, last_text,
                              events, stderr, calls, bytes_in, reads>>]_vars
    /\ [](last_read = "interrupted"
            => /\ pc = "Accumulating"
               /\ ENABLED (\E n \in ReadSizes : ReadOk(n, Failure))
               /\ ENABLED ReadInterrupted)

\* interrupted in the middle of a session, with audio pending
C11_Witness ==
    /\ last_read = "interrupted"
    /\ VecLen(all_audio) >= 16000
    /\ samples_since_last_transcription >= 3999
    /\ last_text # ""

----------------------------------------------------------------------------
(* C12: once an event with is_final = true has been emitted the session is *)
(* Done: no step emits an event, reads input or calls the recognizer any   *)
(* more, so a terminal event is the last event of the stream and a final   *)
(* call the last call.                                                     *)
C12_DoneIsTerminal ==
    /\ [][FinalEvents # << >>
            => UNCHANGED <<pc, all_audio, samples_since_last_transcription, last_text,
                           events, stderr, calls, bytes_in, reads, last_read>>]_vars
    /\ [](/\ \A i \in 1..Len(events) : events[i].is_final => i = Len(events)
          /\ \A i \in 1..Len(calls) : calls[i].timestamps => i = Len(calls)
          /\ FinalEvents # << >> => pc = "Done" /\ last_read = "eof")

\* each kind of terminal event, after partial events
C12_Witness ==
    /\ pc = "Done"
    /\ Len(PartialEvents) >= 2
    /\ Len(FinalEvents) = 1
    /\ Last(events).text = "b"
    /\ Last(events).duration_secs = << >>

----------------------------------------------------------------------------
ExpectedReady ==
    [text |-> "", is_final |-> FALSE, duration_secs |-> << >>,
     audio_duration_secs |-> << 0 >>, timestamps |-> << >>]

(* C13: the ready event (empty text, is_final = false, audio duration 0,   *)
(* no duration_secs, no timestamps) is the first event of every session,   *)
(* is emitted before any read and any recognition call, and occurs once.   *)
C13_ReadyFirstAndOnce ==
    /\ [](pc = "Start" => /\ events = << >> /\ calls = << >>
                          /\ bytes_in = 0 /\ reads = 0 /\ last_read = "none")
    /\ [](pc # "Start" => /\ events # << >>
                          /\ events[1] = ExpectedReady
                          /\ \A i \in 2..Len(events) : events[i] # ExpectedReady)
    /\ [][events = << >> /\ events' # << >>
            => /\ events' = << ExpectedReady >>
               /\ last_read' = "none" /\ bytes_in' = 0 /\ calls' = << >>]_vars

\* the session of an empty input, finished
C13_Witness ==
    /\ pc = "Done"
    /\ bytes_in = 0
    /\ Len(events) = 2
    /\ ~events[1].is_final

----------------------------------------------------------------------------
ExpectedEmptyFinal ==
    [text |-> "", is_final |-> TRUE, duration_secs |-> << 0 >>,
     audio_duration_secs |-> << 0 >>, timestamps |-> << >>]

EmptyInputPath ==
    /\ VecIsEmpty(all_audio)
    /\ calls = << >>
    /\ Last(events) = ExpectedEmptyFinal

FinalCallPath ==
    /\ ~VecIsEmpty(all_audio)
    /\ Len(FinalCalls) = 1
    /\ Last(calls).timestamps
    /\ Last(calls).audio = all_audio

(* C14 as claimed: at end of input the session takes the empty-input path  *)
(* (empty buffer, terminal event with empty text, duration_secs 0, audio   *)
(* duration 0 and no timestamps, no recognition call) if and only if no    *)
(* byte was ever received; otherwise the final call is made over a         *)
(* non-empty buffer.                                                       *)
C14_EmptyIffNoBytes ==
    pc = "Done" =>
        /\ bytes_in = 0 => EmptyInputPath
        /\ bytes_in > 0 => FinalCallPath

(* C14 as amended: at end of input the session takes the empty-input path  *)
(* if and only if no whole sample was ever decoded, that is, every read    *)
(* delivered a single byte (or none was made); when some read delivered    *)
(* two bytes or more, the final call is made over the non-empty buffer.    *)
C14_EmptyIffNoSample ==
    pc = "Done" =>
        /\ bytes_in = reads => EmptyInputPath
        /\ bytes_in > reads => FinalCallPath

\* bytes were received and the empty-input path was taken
C14_Witness ==
    /\ pc = "Done"
    /\ bytes_in >= 2
    /\ bytes_in = reads
    /\ Last(events).is_final

----------------------------------------------------------------------------
(* C15: no event carries an empty timestamps list; an event carries        *)
(* timestamps if and only if it is the final event of a successful final   *)
(* call that returned at least one span, and then it carries all of them:  *)
(* the ready event, the partial events, the empty-input final event, the   *)
(* fallback final event and a successful final event without spans have no *)
(* timestamps field.                                                       *)
C15_TimestampsOnlyWhenSpans ==
    \A i \in 1..Len(events) :
        LET e == events[i]
            fromSpans == /\ e.is_final
                         /\ calls # << >>
                         /\ Last(calls).timestamps
                         /\ Last(calls).ok
                         /\ Last(calls).spans > 0
        IN  /\ e.timestamps # << << >> >>
            /\ e.timestamps # << >> <=> fromSpans
            /\ fromSpans => /\ Len(e.timestamps[1]) = Last(calls).spans
                            /\ e.duration_secs # << >>
                            /\ e.audio_duration_secs # << >>

\* a successful final call that returned no span, after a partial event
C15_Witness ==
    /\ pc = "Done"
    /\ Len(PartialEvents) >= 1
    /\ Last(calls).timestamps /\ Last(calls).ok /\ Last(calls).spans = 0
    /\ Last(events).is_final
    /\ Last(events).timestamps = << >>

----------------------------------------------------------------------------
(* C16: when the source delivers a zero-length read in the end and every   *)
(* recognition call returns, the session ends: unless a fatal read error   *)
(* aborts it, it reaches Done, on the first zero-length read, making at    *)
(* most one final recognition call, and reads no input after that.         *)
C16_EndOfInputTerminates ==
    /\ <>(pc = "Done" \/ pc = "Aborted")
    /\ [](pc = "Aborted" <=> last_read = "error")
    /\ [](pc = "Done" <=> last_read = "eof")
    /\ [](Len(FinalCalls) <= 1)
    /\ [][pc = "Done" => UNCHANGED <<bytes_in, reads, last_read, calls, pc>>]_vars

\* Done after some audio and one final call
C16_Witness ==
    /\ pc = "Done"
    /\ last_read = "eof"
    /\ reads >= 4
    /\ Len(FinalCalls) = 1

----------------------------------------------------------------------------
\* the number of samples the reads before read k contributed
RECURSIVE SamplesBefore(_)
SamplesBefore(k) ==
    IF k <= 1 THEN 0 ELSE SamplesBefore(k - 1) + (Len(byte_chunks[k-1]) \div 2)

(* C17: a read of n bytes appends exactly floor(n/2) samples, sample j of  *)
(* them decoded from bytes 2j-1 and 2j of that read as a little-endian     *)
(* signed 16-bit number; a trailing odd byte is dropped and never joined   *)
(* to the next read's first byte, so the number of samples is the sum of   *)
(* the reads' floor(n/2), which depends on how the bytes are split.        *)
C17_WholePairsPerChunk ==
    /\ Len(decoded) = SamplesBefore(Len(byte_chunks) + 1)
    /\ \A k \in 1..Len(byte_chunks) :
          LET chunk == byte_chunks[k] IN
          /\ Len(DecodeChunk(chunk)) = Len(chunk) \div 2
          /\ Len(DecodeChunk(chunk)) = SamplesIn(Len(chunk))
          /\ \A j \in 1..(Len(chunk) \div 2) :
                LET unsigned == chunk[2*j - 1] + 256 * chunk[2*j] IN
                decoded[SamplesBefore(k) + j]
                    = (IF unsigned < 32768 THEN unsigned ELSE unsigned - 65536)

\* an odd byte was dropped: read in one piece the same three bytes give -255
C17_Witness ==
    /\ byte_chunks = << << 1 >>, << 255, 1 >> >>
    /\ decoded = << 511 >>

----------------------------------------------------------------------------
IsTrimWarning(w) == w.kind = "trimmed"

(* C18: the buffer is appended at the tail and truncated at the head only: *)
(* after every step it is the newest samples of the stream ingested so far *)
(* (all of them up to 2,880,000, exactly the newest 2,880,000 once samples *)
(* were evicted); an eviction removes the (length after append minus       *)
(* 2,880,000) oldest samples and reports that count, and nothing is        *)
(* reported without an eviction.  The reads of SpecLong are of even size,  *)
(* so the stream so far has bytes_in / 2 samples.                          *)
C18_BufferIsNewestSuffix ==
    /\ [](/\ all_audio.hi = bytes_in \div 2
          /\ all_audio.lo = (IF bytes_in \div 2 > 2880000
                             THEN (bytes_in \div 2) - 2880000 ELSE 0))
    /\ [][/\ all_audio'.hi >= all_audio.hi
          /\ all_audio'.lo >= all_audio.lo
          /\ LET before  == Len(SelectSeq(stderr, IsTrimWarning))
                 after   == Len(SelectSeq(stderr', IsTrimWarning))
                 evicted == all_audio'.lo - all_audio.lo
             IN  IF evicted > 0
                 THEN /\ after = before + 1
                      /\ stderr'[Len(stderr) + 1] = [kind |-> "trimmed", excess |-> evicted]
                      /\ evicted = VecLen(all_audio) + (all_audio'.hi - all_audio.hi)
                                      - 2880000
                      /\ VecLen(all_audio') = 2880000
                 ELSE after = before]_vars

\* several evictions of different sizes
C18_Witness ==
    /\ all_audio.lo > 8000
    /\ \E i, j \in 1..Len(stderr) :
          /\ stderr[i].kind = "trimmed" /\ stderr[j].kind = "trimmed"
          /\ stderr[i].excess < 3999
          /\ stderr[j].excess = 4000

----------------------------------------------------------------------------
\* this step issued a recognition call from the read loop
Triggered == Len(calls') = Len(calls) + 1 /\ ~Last(calls').timestamps

\* the samples this step appended
Appended == all_audio'.hi - all_audio.hi

----------------------------------------------------------------------------
(* C20: until the first recognition trigger the pending-sample counter     *)
(* equals the buffer length, which is below 16,000 (the counter is not     *)
(* reset while it grows past 8,000); the first call is issued by the first *)
(* step that brings the buffer to 16,000 samples or more, and no call      *)
(* other than the final one is made on fewer than 16,000 samples.          *)
C20_FirstTriggerAtMinimum ==
    /\ [](PartialCalls = << >>
            => /\ samples_since_last_transcription = VecLen(all_audio)
               /\ VecLen(all_audio) = all_audio.hi
               /\ VecLen(all_audio) < 16000)
    /\ [](\A i \in 1..Len(calls) :
            ~calls[i].timestamps => VecLen(calls[i].audio) >= 16000)
    /\ [][(VecLen(all_audio) < 16000 /\ VecLen(all_audio') >= 16000)
            => /\ calls = << >>
               /\ Triggered
               /\ Last(calls').audio = all_audio'
               /\ samples_since_last_transcription' = 0]_vars
    /\ [][calls = << >> /\ Triggered => VecLen(all_audio) < 16000]_vars

\* the first call came on a step that started with 15,996 samples, the counter
\* at 15,996 too
C20_Witness ==
    /\ Len(calls) = 1
    /\ ~calls[1].timestamps
    /\ calls[1].audio.hi = 19996
    /\ reads = 5

====
